---- MODULE Spec2Model ----
(***************************************************************************)
(* nerdctl: the stop command (cmd/nerdctl/stop.go) over the container      *)
(* walker and containerutil.Stop, and the sign/verify gate of push, pull   *)
(* and run exercised by the cosign / notation tests.                       *)
(*                                                                         *)
(* Strings that are matched by prefix are sequences of one-character       *)
(* strings: "ab2" is <<"a","b","2">>.                                      *)
(***************************************************************************)
EXTENDS Integers, Sequences, FiniteSets, TLC

\* ------------------------------------------------------------------------
\* Bounds of the model
\* ------------------------------------------------------------------------

\* Longest argument list of one stop invocation.
MaxArgs == 2

\* ------------------------------------------------------------------------
\* The runtime's containers
\* ------------------------------------------------------------------------

Containers == {"c1", "c2", "c3"}

\* A container's unique ID.
Id(c) ==
    CASE c = "c1" -> <<"a", "b">>
      [] c = "c2" -> <<"a", "b", "2">>
      [] c = "c3" -> <<"c", "d", "3">>

\* A container's assigned name; <<>> when it has none.
Name(c) ==
    CASE c = "c1" -> <<"w", "e", "b">>
      [] c = "c2" -> <<>>
      [] c = "c3" -> <<"a">>

\* The walker hands the matches to OnFound in the runtime's listing order.
Rank(c) ==
    CASE c = "c1" -> 1
      [] c = "c2" -> 2
      [] c = "c3" -> 3

Statuses == {"created", "running", "paused", "stopped", "unknown"}

\* A status from which the container no longer runs.
Terminal(st) == st = "stopped"

\* Request strings a user passes to stop.
Requests ==
    { <<"a">>,                \* prefix of c1 and c2, name of c3
      <<"a", "b">>,           \* full ID of c1, prefix of c2
      <<"c">>,                \* prefix of c3
      <<"z">> }               \* matches nothing

\* Request strings that probe the matching rule: the ones above, the empty
\* string, the full IDs, a name, proper prefixes of a name, a string longer
\* than an ID.
ProbeRequests ==
    Requests \cup
    { <<>>,
      <<"a", "b", "2">>,        \* full ID of c2
      <<"c", "d", "3">>,        \* full ID of c3
      <<"c", "d">>,             \* prefix of c3
      <<"w", "e", "b">>,        \* name of c1
      <<"w">>,                  \* proper prefix of the name of c1
      <<"w", "e">>,
      <<"a", "b", "2", "x">>,   \* an ID and more
      <<"b">> }                 \* inside an ID, not at its start

\* Requests two concurrent invocations draw from, three ways to ask for
\* c3: by a prefix of its ID, by its full ID, by its name.
ConcurrentRequests == { <<"c">>, <<"c", "d", "3">>, <<"a">> }

\* Values of --time the model draws from, in seconds.
TimeValues == {0, 2}

\* The default of the --time flag.
DefaultTimeout == 10

Callers == {1, 2}

RECURSIVE SeqsUpTo(_, _)
SeqsUpTo(S, n) ==
    IF n = 0 THEN {<<>>}
    ELSE LET shorter == SeqsUpTo(S, n - 1)
         IN  shorter \cup {Append(s, x) : s \in {t \in shorter : Len(t) = n - 1}, x \in S}

ArgLists == {a \in SeqsUpTo(Requests, MaxArgs) : Len(a) >= 1}

\* ------------------------------------------------------------------------
\* State
\* ------------------------------------------------------------------------

VARIABLES
    live,        \* containers the runtime knows
    status,      \* lifecycle status of each container
    args,        \* per caller: the CONTAINER arguments
    timeChanged, \* per caller: cmd.Flags().Changed("time")
    timeValue,   \* per caller: cmd.Flags().GetInt("time")
    pc,          \* per caller: position in stopAction
    argIdx,      \* per caller: index of the request being walked
    found,       \* per caller: the walker's matches for that request
    matchIdx,    \* per caller: index of the match handed to OnFound
    timer,       \* per caller: seconds since the graceful signal of the running Stop
    ret,         \* per caller: the error stopAction returned
    stdout,      \* per caller: lines written to cmd.OutOrStdout()
    stderr,      \* per caller: lines written to cmd.ErrOrStderr()
    signals,     \* every signal issued to the runtime, in order
    runs,        \* every finished Stop call, in order
    walked       \* every resolution the walker made, in order

stopVars == <<live, status, args, timeChanged, timeValue, pc, argIdx, found,
              matchIdx, timer, ret, stdout, stderr, signals, runs, walked>>

VARIABLES
    regTag,      \* registry: the digest each image reference points to
    atts,        \* registry: the signature attestations published, by digest
    localImg,    \* local image store: the digest each reference holds
    policyDoc,   \* the trust policy document (its ordered policies)
    op,          \* the push / pull / run in progress
    last,        \* the command that just finished, with its outcome
    signFailed   \* the digests some push of which failed at Sign

transferVars == <<regTag, atts, localImg, policyDoc, op, last, signFailed>>

vars == <<stopVars, transferVars>>

\* ------------------------------------------------------------------------
\* EntityResolver: containerwalker.Walk's matching
\* ------------------------------------------------------------------------

IsPrefix(p, s) == Len(p) <= Len(s) /\ SubSeq(s, 1, Len(p)) = p

\* The matching rule: full ID, non-empty prefix of the ID, or exact name.
Matches(c, req) ==
    \/ req = Id(c)
    \/ Len(req) > 0 /\ IsPrefix(req, Id(c))
    \/ Name(c) # <<>> /\ req = Name(c)

\* Mutant: the full-length match given no priority.
MatchSet_RuleOnly(E, req) == {c \in E : Matches(c, req)}

\* A full-length ID match takes priority over the other entities that match
\* only by a shorter prefix of their ID.
MatchSet(E, req) ==
    LET all  == {c \in E : Matches(c, req)}
        full == {c \in all : Id(c) = req}
    IN  IF full = {} THEN all
        ELSE {c \in all : Id(c) = req \/ (Name(c) # <<>> /\ req = Name(c))}

RECURSIVE Ordered(_)
Ordered(S) ==
    IF S = {} THEN <<>>
    ELSE LET c == CHOOSE x \in S : \A y \in S : Rank(x) <= Rank(y)
         IN  <<c>> \o Ordered(S \ {c})

\* The matches the walker iterates over.
Resolve(E, req) == Ordered(MatchSet(E, req))

\* ------------------------------------------------------------------------
\* stopAction's own decisions
\* ------------------------------------------------------------------------

NilTimeout == [set |-> FALSE, secs |-> 0]

\* Mutant: the flag's value taken without the time.Second factor, which
\* is no wait at all on the model's scale of seconds.
Timeout_NoSeconds(changed, value) ==
    IF changed THEN [set |-> TRUE, secs |-> 0] ELSE NilTimeout

\* Mutant: the timeout set whether or not the flag was given.
Timeout_AlwaysSet(changed, value) == [set |-> TRUE, secs |-> value]

\* var timeout *time.Duration; set only if the flag was given.
Timeout(changed, value) ==
    IF changed THEN [set |-> TRUE, secs |-> value] ELSE NilTimeout

\* The wait Stop applies: the given timeout, the default when it is nil.
EffectiveTimeout(t) == IF t.set THEN t.secs ELSE DefaultTimeout

NoErr == [kind |-> "nil", req |-> <<>>]

\* Mutant: the comparison off by one, a single match rejected too.
OnFoundRejects_OffByOne(matchCount) == matchCount >= 1

\* Mutant: the ambiguity check left out.
OnFoundRejects_Never(matchCount) == FALSE

\* if found.MatchCount > 1 { return fmt.Errorf("multiple IDs found ...") }
OnFoundRejects(matchCount) == matchCount > 1

\* Mutant: the error built without the request.
AmbiguousError_NoRequest(req, matchCount) == [kind |-> "ambiguous", req |-> <<>>]

\* fmt.Errorf("multiple IDs found with provided prefix: %s", found.Req):
\* built from the request; found.MatchCount is not put into it.
AmbiguousError(req, matchCount) == [kind |-> "ambiguous", req |-> req]

\* The operands formatted into the message of an error stopAction builds;
\* an error of the runtime is returned as it came.
ErrorOperands(e) ==
    IF e.kind \in {"ambiguous", "nosuch"} THEN <<e.req>> ELSE <<>>

\* A count as it would be printed.
FormatInt(n) ==
    CASE n = 0 -> <<"0">>
      [] n = 1 -> <<"1">>
      [] n = 2 -> <<"2">>
      [] n = 3 -> <<"3">>

\* Mutant: no errdefs.IsNotFound case, every error of Stop is returned.
OnFoundAfterStop_NoVanishCase(stopErr) ==
    IF stopErr = "nil" THEN "ok" ELSE "fail"

\* Mutant: the error test inverted (err == nil taken for the failure).
OnFoundAfterStop_Inverted(stopErr) ==
    IF stopErr = "nil" THEN "fail"
    ELSE IF stopErr = "notfound" THEN "gone"
    ELSE "ok"

\* Mutant: every error of Stop handled as the not-found one.
OnFoundAfterStop_ErrorSwallowed(stopErr) ==
    IF stopErr = "nil" THEN "ok" ELSE "gone"

\* Mutant: the not-found case falls through to the report on stdout.
OnFoundAfterStop_GoneReported(stopErr) ==
    IF stopErr = "nil" THEN "ok"
    ELSE IF stopErr = "notfound" THEN "ok"
    ELSE "fail"

\* What OnFound does with the error Stop returned: "ok" prints the request
\* and returns nil, "gone" prints "No such container" to stderr and returns
\* nil, "fail" returns the error.
OnFoundAfterStop(stopErr) ==
    IF stopErr = "nil" THEN "ok"
    ELSE IF stopErr = "notfound" THEN "gone"
    ELSE "fail"

\* Mutant: the n == 0 case left out, the loop goes on.
WalkCountIsError_Never(n) == FALSE

\* Mutant: only a negative count taken for the failure.
WalkCountIsError_Negative(n) == n < 0

\* else if n == 0 { return fmt.Errorf("no such container %s", req) }
WalkCountIsError(n) == n = 0

\* ------------------------------------------------------------------------
\* Initial state: one stop invocation (caller 1) about to run
\* ------------------------------------------------------------------------

InitStop ==
    /\ live = Containers
    /\ status \in [Containers -> {"running", "stopped"}]
    /\ \E a \in ArgLists, ch \in BOOLEAN :
         \E v \in (IF ch THEN TimeValues ELSE {DefaultTimeout}) :
            /\ args = [p \in Callers |-> IF p = 1 THEN a ELSE <<>>]
            /\ timeChanged = [p \in Callers |-> IF p = 1 THEN ch ELSE FALSE]
            /\ timeValue = [p \in Callers |-> IF p = 1 THEN v ELSE DefaultTimeout]
    /\ pc = [p \in Callers |-> IF p = 1 THEN "loop" ELSE "done"]
    /\ argIdx = [p \in Callers |-> 1]
    /\ found = [p \in Callers |-> <<>>]
    /\ matchIdx = [p \in Callers |-> 1]
    /\ timer = [p \in Callers |-> 0]
    /\ ret = [p \in Callers |-> NoErr]
    /\ stdout = [p \in Callers |-> <<>>]
    /\ stderr = [p \in Callers |-> <<>>]
    /\ signals = <<>>
    /\ runs = <<>>
    /\ walked = <<>>

\* ------------------------------------------------------------------------
\* stopAction, step by step
\* ------------------------------------------------------------------------

CurReq(p) == args[p][argIdx[p]]
CurTarget(p) == found[p][matchIdx[p]]
CurTimeout(p) == EffectiveTimeout(Timeout(timeChanged[p], timeValue[p]))

Return(p, e) ==
    /\ ret' = [ret EXCEPT ![p] = e]
    /\ pc' = [pc EXCEPT ![p] = "done"]

\* walker.Walk returned (n, nil): the check of n, then the next argument.
AfterWalk(p, n) ==
    IF WalkCountIsError(n)
    THEN /\ Return(p, [kind |-> "nosuch", req |-> CurReq(p)])
         /\ UNCHANGED argIdx
    ELSE /\ argIdx' = [argIdx EXCEPT ![p] = @ + 1]
         /\ pc' = [pc EXCEPT ![p] = "loop"]
         /\ UNCHANGED ret

\* for _, req := range args { n, err := walker.Walk(ctx, req) ... }: the
\* walker lists the matching containers; with none it returns 0 at once.
WalkStep(p) ==
    /\ pc[p] = "loop"
    /\ IF argIdx[p] > Len(args[p])
       THEN /\ Return(p, NoErr)
            /\ UNCHANGED <<argIdx, found, matchIdx, walked>>
       ELSE LET f == Resolve(live, CurReq(p))
            IN  /\ found' = [found EXCEPT ![p] = f]
                /\ walked' = Append(walked, [caller |-> p, arg |-> argIdx[p],
                                             n |-> Len(f)])
                /\ matchIdx' = [matchIdx EXCEPT ![p] = 1]
                /\ IF Len(f) = 0
                   THEN AfterWalk(p, 0)
                   ELSE /\ pc' = [pc EXCEPT ![p] = "onfound"]
                        /\ UNCHANGED <<argIdx, ret>>
    /\ UNCHANGED <<live, status, args, timeChanged, timeValue, timer,
                   stdout, stderr, signals, runs>>

\* The runtime's listing fails: Walk returns the error, stopAction returns it.
WalkFails(p) ==
    /\ pc[p] = "loop"
    /\ argIdx[p] <= Len(args[p])
    /\ Return(p, [kind |-> "runtime", req |-> CurReq(p)])
    /\ UNCHANGED <<live, status, args, timeChanged, timeValue, argIdx, found,
                   matchIdx, timer, stdout, stderr, signals, runs, walked>>

\* containerutil.Stop returned stopErr for the current match: the rest of
\* OnFound, then the walker's next match or its return.
FinishStop(p, entry, stopErr) ==
    LET outcome == OnFoundAfterStop(stopErr)
    IN  /\ runs' = Append(runs, [caller |-> p, arg |-> argIdx[p],
                                 match |-> matchIdx[p], target |-> CurTarget(p),
                                 entry |-> entry,
                                 escalated |-> pc[p] = "escalated",
                                 result |-> stopErr])
        /\ stdout' = [stdout EXCEPT ![p] =
                        IF outcome = "ok" THEN Append(@, CurReq(p)) ELSE @]
        /\ stderr' = [stderr EXCEPT ![p] =
                        IF outcome = "gone" THEN Append(@, CurReq(p)) ELSE @]
        /\ timer' = [timer EXCEPT ![p] = 0]
        /\ IF outcome = "fail"
           THEN /\ Return(p, [kind |-> "runtime", req |-> CurReq(p)])
                /\ UNCHANGED <<argIdx, matchIdx>>
           ELSE IF matchIdx[p] < Len(found[p])
           THEN /\ matchIdx' = [matchIdx EXCEPT ![p] = @ + 1]
                /\ pc' = [pc EXCEPT ![p] = "onfound"]
                /\ UNCHANGED <<argIdx, ret>>
           ELSE /\ AfterWalk(p, Len(found[p]))
                /\ UNCHANGED matchIdx

\* OnFound: the ambiguity check, then the entry of Stop. Stop looks the
\* container up: gone is not-found, terminal is success with no signal,
\* otherwise the graceful signal goes out and the wait begins.
OnFoundStep(p) ==
    /\ pc[p] = "onfound"
    /\ IF OnFoundRejects(Len(found[p]))
       THEN /\ Return(p, AmbiguousError(CurReq(p), Len(found[p])))
            /\ UNCHANGED <<argIdx, matchIdx, timer, stdout, stderr, signals, runs>>
       ELSE IF CurTarget(p) \notin live
       THEN /\ FinishStop(p, "absent", "notfound")
            /\ UNCHANGED signals
       ELSE IF Terminal(status[CurTarget(p)])
       THEN /\ FinishStop(p, "terminal", "nil")
            /\ UNCHANGED signals
       ELSE /\ signals' = Append(signals, [sig |-> "term", target |-> CurTarget(p),
                                           caller |-> p, arg |-> argIdx[p],
                                           match |-> matchIdx[p],
                                           count |-> Len(found[p]),
                                           st |-> status[CurTarget(p)], at |-> 0])
            /\ timer' = [timer EXCEPT ![p] = 0]
            /\ pc' = [pc EXCEPT ![p] = "awaiting"]
            /\ UNCHANGED <<argIdx, matchIdx, ret, stdout, stderr, runs>>
    /\ UNCHANGED <<live, status, args, timeChanged, timeValue, found, walked>>

InStop(p) == pc[p] \in {"awaiting", "escalated"}

\* AwaitingExit / Escalated -> Terminated: the container reached a terminal status.
StopSeesExit(p) ==
    /\ InStop(p)
    /\ CurTarget(p) \in live
    /\ Terminal(status[CurTarget(p)])
    /\ FinishStop(p, "active", "nil")
    /\ UNCHANGED <<live, status, args, timeChanged, timeValue, found, signals, walked>>

\* The container disappeared from the runtime during the Stop: not-found.
StopSeesGone(p) ==
    /\ InStop(p)
    /\ CurTarget(p) \notin live
    /\ FinishStop(p, "active", "notfound")
    /\ UNCHANGED <<live, status, args, timeChanged, timeValue, found, signals, walked>>

\* An unexpected runtime error ends the Stop as Failed.
StopFails(p) ==
    /\ \/ InStop(p)
       \/ pc[p] = "onfound" /\ ~OnFoundRejects(Len(found[p]))
    /\ CurTarget(p) \in live
    /\ FinishStop(p, IF InStop(p) THEN "active" ELSE "error", "runtime")
    /\ UNCHANGED <<live, status, args, timeChanged, timeValue, found, signals, walked>>

\* AwaitingExit -> Escalated: the timer elapsed and the container still runs.
Escalate(p) ==
    /\ pc[p] = "awaiting"
    /\ CurTarget(p) \in live
    /\ ~Terminal(status[CurTarget(p)])
    /\ timer[p] >= CurTimeout(p)
    /\ signals' = Append(signals, [sig |-> "kill", target |-> CurTarget(p),
                                   caller |-> p, arg |-> argIdx[p],
                                   match |-> matchIdx[p],
                                   count |-> Len(found[p]),
                                   st |-> status[CurTarget(p)], at |-> timer[p]])
    /\ pc' = [pc EXCEPT ![p] = "escalated"]
    /\ UNCHANGED <<live, status, args, timeChanged, timeValue, argIdx, found,
                   matchIdx, timer, ret, stdout, stderr, runs, walked>>

\* ------------------------------------------------------------------------
\* The environment: time and the runtime
\* ------------------------------------------------------------------------

Busy == \E p \in Callers : pc[p] # "done"

\* One second passes for every Stop that is waiting.
Tick ==
    /\ \E p \in Callers : pc[p] = "awaiting" /\ timer[p] < CurTimeout(p)
    /\ timer' = [p \in Callers |->
                    IF pc[p] = "awaiting" /\ timer[p] < CurTimeout(p)
                    THEN timer[p] + 1 ELSE timer[p]]
    /\ UNCHANGED <<live, status, args, timeChanged, timeValue, pc, argIdx,
                   found, matchIdx, ret, stdout, stderr, signals, runs, walked>>

\* A container exits, on the graceful signal or by itself.
ContainerExits(c) ==
    /\ Busy
    /\ c \in live
    /\ ~Terminal(status[c])
    /\ status' = [status EXCEPT ![c] = "stopped"]
    /\ UNCHANGED <<live, args, timeChanged, timeValue, pc, argIdx, found,
                   matchIdx, timer, ret, stdout, stderr, signals, runs, walked>>

\* Escalated -> Terminated: the forceful signal takes effect.
ForceStopTakesEffect(c) ==
    /\ c \in live
    /\ ~Terminal(status[c])
    /\ \E i \in 1..Len(signals) : signals[i].sig = "kill" /\ signals[i].target = c
    /\ status' = [status EXCEPT ![c] = "stopped"]
    /\ UNCHANGED <<live, args, timeChanged, timeValue, pc, argIdx, found,
                   matchIdx, timer, ret, stdout, stderr, signals, runs, walked>>

\* Somebody else removes the container from the runtime, which then knows
\* no status of it.
ContainerRemoved(c) ==
    /\ Busy
    /\ c \in live
    /\ live' = live \ {c}
    /\ status' = [status EXCEPT ![c] = "unknown"]
    /\ UNCHANGED <<args, timeChanged, timeValue, pc, argIdx, found,
                   matchIdx, timer, ret, stdout, stderr, signals, runs, walked>>


\* ------------------------------------------------------------------------
\* TransferGate and TrustBackend: push --sign, pull / run --verify
\* ------------------------------------------------------------------------

Image == "i1"
Digests == {"d1", "d2"}
None == "none"

\* Key pairs: the private half signs, the public half (or the trust store
\* of the same name) verifies.
Keys == {"K1", "K2"}

\* --sign=<backend> with its key, or no directive.
SignDirectives ==
    { [backend |-> "none", key |-> None],
      [backend |-> "cosign", key |-> "K1"],
      [backend |-> "notation", key |-> "K1"] }

\* --verify=<backend> with its key, or no directive. notation takes its
\* trust from the trust policy document, not from the command line.
VerifyDirectives ==
    { [backend |-> "none", key |-> None],
      [backend |-> "cosign", key |-> "K1"],
      [backend |-> "cosign", key |-> "K2"],
      [backend |-> "notation", key |-> None] }

PullCmds == {"pull", "run"}

\* Trust policy documents: ordered policies, each a scope pattern, a
\* verification level and a trust store.
NoDoc == <<>>
PolicyDocs ==
    { NoDoc,
      << [scope |-> "*", level |-> "strict", store |-> "K1"] >>,
      << [scope |-> "*", level |-> "strict", store |-> "K2"] >>,
      << [scope |-> "i2", level |-> "strict", store |-> "K1"] >>,
      << [scope |-> "i1", level |-> "skip", store |-> "K1"],
         [scope |-> "*", level |-> "strict", store |-> "K1"] >> }

NoPolicy == [scope |-> None, level |-> None, store |-> None]

ScopeMatches(scope, img) == scope = "*" \/ scope = img

\* Scope patterns are evaluated in document order; the first match governs.
RECURSIVE FirstMatch(_, _)
FirstMatch(doc, img) ==
    IF doc = <<>> THEN NoPolicy
    ELSE IF ScopeMatches(Head(doc).scope, img) THEN Head(doc)
    ELSE FirstMatch(Tail(doc), img)

\* The policy that governs a verification: for the key-pair backend the
\* key given with the directive, trusted for every scope; for the trust
\* store backend the first matching policy of the document.
ApplicablePolicy(doc, directive, img) ==
    IF directive.backend = "cosign"
    THEN [scope |-> "*", level |-> "strict", store |-> directive.key]
    ELSE FirstMatch(doc, img)

\* A valid signature of the digest by the backend, from a trusted store.
HasTrustedSignature(A, digest, backend, policy) ==
    \E a \in A : a.digest = digest /\ a.backend = backend /\ a.key = policy.store

\* Mutant: a tool that did not run counted as "no signature".
Verify_FailureIsUnverified(A, digest, backend, policy, toolOk) ==
    IF policy.level = "skip" THEN "Verified"
    ELSE IF toolOk /\ HasTrustedSignature(A, digest, backend, policy) THEN "Verified"
    ELSE "TrustDenied"

\* Verify(imageDigestRef, backendConfig, policy): a tool that did not run
\* to a decodable result is an error; otherwise the signatures decide.
\* The skip level performs no check.
Verify(A, digest, backend, policy, toolOk) ==
    IF policy.level = "skip" THEN "Verified"
    ELSE IF ~toolOk THEN "AttestationToolError"
    ELSE IF HasTrustedSignature(A, digest, backend, policy) THEN "Verified"
    ELSE "TrustDenied"

\* Mutant: the gate goes on whatever the verdict.
GateAdmits_Any(verdict) == TRUE

\* Whether the gate goes on to materialize the image after a verdict.
GateAdmits(verdict) == verdict = "Verified"

Idle == [cmd |-> None, pc |-> "idle", backend |-> "none", key |-> None,
         digest |-> None, doc |-> NoDoc, policy |-> NoPolicy,
         invoked |-> FALSE, toolOk |-> FALSE, signed |-> FALSE,
         verdict |-> None, materialized |-> FALSE, ok |-> FALSE,
         localBefore |-> None, localAfter |-> None]

\* Nothing pushed, pulled or configured: the state of the gate while the
\* stop command runs.
TransferIdle ==
    /\ regTag = None
    /\ atts = {}
    /\ localImg = None
    /\ policyDoc = NoDoc
    /\ op = Idle
    /\ last = Idle
    /\ signFailed = {}

\* Before the tests' commands: nothing pushed, nothing local, some trust
\* policy document (or none) in place.
InitTransfer ==
    /\ regTag = None
    /\ atts = {}
    /\ localImg = None
    /\ policyDoc \in PolicyDocs
    /\ op = Idle
    /\ last = Idle
    /\ signFailed = {}

\* No stop invocation in progress: the state of the runtime while the
\* gate runs.
StopIdle ==
    /\ live = Containers
    /\ status = [c \in Containers |-> "running"]
    /\ args = [p \in Callers |-> <<>>]
    /\ timeChanged = [p \in Callers |-> FALSE]
    /\ timeValue = [p \in Callers |-> DefaultTimeout]
    /\ pc = [p \in Callers |-> "done"]
    /\ argIdx = [p \in Callers |-> 1]
    /\ found = [p \in Callers |-> <<>>]
    /\ matchIdx = [p \in Callers |-> 1]
    /\ timer = [p \in Callers |-> 0]
    /\ ret = [p \in Callers |-> NoErr]
    /\ stdout = [p \in Callers |-> <<>>]
    /\ stderr = [p \in Callers |-> <<>>]
    /\ signals = <<>>
    /\ runs = <<>>
    /\ walked = <<>>

\* The command ends: its record becomes the last outcome.
Finish(rec, after) ==
    /\ last' = [rec EXCEPT !.pc = "done", !.localAfter = after]
    /\ op' = Idle

\* nerdctl build -t <ref>: new content under the reference, locally.
Build ==
    /\ op.pc = "idle"
    /\ \E d \in Digests :
         /\ d # localImg
         /\ localImg' = d
    /\ UNCHANGED <<regTag, atts, policyDoc, op, last, signFailed>>

\* The operator removes the trust policy document.
RemovePolicy ==
    /\ op.pc = "idle"
    /\ policyDoc # NoDoc
    /\ policyDoc' = NoDoc
    /\ UNCHANGED <<regTag, atts, localImg, op, last, signFailed>>

\* nerdctl push [--sign=<backend> ...] <ref>
StartPush(directive) ==
    /\ op.pc = "idle"
    /\ localImg # None
    /\ op' = [Idle EXCEPT !.cmd = "push", !.pc = "transfer",
                          !.backend = directive.backend, !.key = directive.key,
                          !.localBefore = localImg]
    /\ last' = Idle
    /\ UNCHANGED <<regTag, atts, localImg, policyDoc, signFailed>>

\* The image is pushed first: its content becomes addressable by digest.
PushTransfer ==
    /\ op.cmd = "push"
    /\ op.pc = "transfer"
    /\ regTag' = localImg
    /\ IF op.backend = "none"
       THEN Finish([op EXCEPT !.digest = localImg, !.ok = TRUE], localImg)
       ELSE /\ op' = [op EXCEPT !.digest = localImg, !.pc = "sign"]
            /\ UNCHANGED last
    /\ UNCHANGED <<atts, localImg, policyDoc, signFailed>>

\* The registry refuses or loses the transfer: the push fails, nothing is
\* stored, no later step runs.
PushTransferFails ==
    /\ op.cmd = "push"
    /\ op.pc = "transfer"
    /\ Finish([op EXCEPT !.verdict = "TransferError"], localImg)
    /\ UNCHANGED <<regTag, atts, localImg, policyDoc, signFailed>>

\* Mutant: a failure of Sign is not reported, the push counts as done.
Sign_FailureNotReported(toolOk) ==
    /\ op.pc = "sign"
    /\ IF toolOk
       THEN /\ op' = [op EXCEPT !.pc = "publish", !.invoked = TRUE,
                                !.toolOk = TRUE, !.signed = TRUE]
            /\ UNCHANGED <<last, signFailed>>
       ELSE /\ Finish([op EXCEPT !.invoked = TRUE, !.verdict = "SignError",
                                 !.ok = TRUE], localImg)
            /\ signFailed' = signFailed \cup {op.digest}
    /\ UNCHANGED <<regTag, atts, localImg, policyDoc>>

\* TrustBackend.Sign against the digest the push returned. A failure ends
\* the push as failed; what was pushed stays in the registry.
Sign(toolOk) ==
    /\ op.pc = "sign"
    /\ IF toolOk
       THEN /\ op' = [op EXCEPT !.pc = "publish", !.invoked = TRUE,
                                !.toolOk = TRUE, !.signed = TRUE]
            /\ UNCHANGED <<last, signFailed>>
       ELSE /\ Finish([op EXCEPT !.invoked = TRUE, !.verdict = "SignError"],
                      localImg)
            /\ signFailed' = signFailed \cup {op.digest}
    /\ UNCHANGED <<regTag, atts, localImg, policyDoc>>

\* The attestation is published to the registry, associated with the digest.
Publish ==
    /\ op.pc = "publish"
    /\ atts' = atts \cup {[digest |-> op.digest, backend |-> op.backend,
                           key |-> op.key]}
    /\ Finish([op EXCEPT !.ok = TRUE], localImg)
    /\ UNCHANGED <<regTag, localImg, policyDoc, signFailed>>

\* nerdctl pull / run [--verify=<backend> ...] <ref>
StartPull(cmd, directive) ==
    /\ op.pc = "idle"
    /\ regTag # None
    /\ op' = [Idle EXCEPT !.cmd = cmd,
                          !.pc = IF directive.backend = "none"
                                 THEN "materialize" ELSE "policy",
                          !.backend = directive.backend, !.key = directive.key,
                          !.digest = regTag, !.localBefore = localImg]
    /\ last' = Idle
    /\ UNCHANGED <<regTag, atts, localImg, policyDoc, signFailed>>

\* The gate resolves the policy that applies to the image; none is
\* PolicyNotFound, fail-closed.
ResolvePolicy ==
    /\ op.pc = "policy"
    /\ LET pol == ApplicablePolicy(policyDoc, [backend |-> op.backend, key |-> op.key],
                                   Image)
       IN  IF pol = NoPolicy
           THEN Finish([op EXCEPT !.doc = policyDoc, !.verdict = "PolicyNotFound"],
                       localImg)
           ELSE /\ op' = [op EXCEPT !.doc = policyDoc, !.policy = pol, !.pc = "verify"]
                /\ UNCHANGED last
    /\ UNCHANGED <<regTag, atts, localImg, policyDoc, signFailed>>

\* TrustBackend.Verify, one invocation of the external tool; only a
\* positive verdict lets the pull go on.
VerifyStep(toolOk) ==
    /\ op.pc = "verify"
    /\ LET v == Verify(atts, op.digest, op.backend, op.policy, toolOk)
           rec == [op EXCEPT !.invoked = op.policy.level # "skip",
                             !.toolOk = toolOk /\ op.policy.level # "skip",
                             !.signed = HasTrustedSignature(atts, op.digest,
                                                            op.backend, op.policy),
                             !.verdict = v]
       IN  IF GateAdmits(v)
           THEN /\ op' = [rec EXCEPT !.pc = "materialize"]
                /\ UNCHANGED last
           ELSE Finish(rec, localImg)
    /\ UNCHANGED <<regTag, atts, localImg, policyDoc, signFailed>>

\* The pulled content is materialized locally.
Materialize ==
    /\ op.pc = "materialize"
    /\ localImg' = op.digest
    /\ Finish([op EXCEPT !.materialized = TRUE, !.ok = TRUE], op.digest)
    /\ UNCHANGED <<regTag, atts, policyDoc, signFailed>>

\* ------------------------------------------------------------------------
\* The repository's tests of the gate: what was signed, the verifying
\* command, and the outcome the test asserts
\* ------------------------------------------------------------------------

\* Mutant: the pull with the matching public key asserted to fail.
TestImageVerifyWithCosign_Flipped ==
    { [sign |-> [backend |-> "cosign", key |-> "K1"], cmd |-> "pull",
       verify |-> [backend |-> "cosign", key |-> "K1"], noDoc |-> FALSE,
       expect |-> "fail"] }

\* push --sign=cosign --cosign-key=<private>; pull --verify=cosign
\* --cosign-key=<public>: AssertOK.
TestImageVerifyWithCosign ==
    { [sign |-> [backend |-> "cosign", key |-> "K1"], cmd |-> "pull",
       verify |-> [backend |-> "cosign", key |-> "K1"], noDoc |-> FALSE,
       expect |-> "ok"] }

\* Mutant: the pull with the new key pair's public key asserted to succeed.
TestImageVerifyWithCosignShouldFailWhenKeyIsNotCorrect_Flipped ==
    { [sign |-> [backend |-> "cosign", key |-> "K1"], cmd |-> "pull",
       verify |-> [backend |-> "cosign", key |-> "K2"], noDoc |-> FALSE,
       expect |-> "ok"] }

\* The same push and pull, then pull --verify=cosign with the public key
\* of a new key pair: AssertFail.
TestImageVerifyWithCosignShouldFailWhenKeyIsNotCorrect ==
    { [sign |-> [backend |-> "cosign", key |-> "K1"], cmd |-> "pull",
       verify |-> [backend |-> "cosign", key |-> "K1"], noDoc |-> FALSE,
       expect |-> "ok"],
      [sign |-> [backend |-> "cosign", key |-> "K1"], cmd |-> "pull",
       verify |-> [backend |-> "cosign", key |-> "K2"], noDoc |-> FALSE,
       expect |-> "fail"] }

\* Mutant: the run with the wrong key asserted to succeed.
TestRunVerifyCosign_Flipped ==
    { [sign |-> [backend |-> "cosign", key |-> "K1"], cmd |-> "run",
       verify |-> [backend |-> "cosign", key |-> "K1"], noDoc |-> FALSE,
       expect |-> "ok"],
      [sign |-> [backend |-> "cosign", key |-> "K1"], cmd |-> "run",
       verify |-> [backend |-> "cosign", key |-> "K2"], noDoc |-> FALSE,
       expect |-> "ok"] }

\* push --sign=cosign; run --verify=cosign with the public key: AssertOK;
\* run --verify=cosign with a key that is not the signer's: AssertFail.
TestRunVerifyCosign ==
    { [sign |-> [backend |-> "cosign", key |-> "K1"], cmd |-> "run",
       verify |-> [backend |-> "cosign", key |-> "K1"], noDoc |-> FALSE,
       expect |-> "ok"],
      [sign |-> [backend |-> "cosign", key |-> "K1"], cmd |-> "run",
       verify |-> [backend |-> "cosign", key |-> "K2"], noDoc |-> FALSE,
       expect |-> "fail"] }

\* Mutant: the pull without a trust policy asserted to succeed.
TestImageVerifyWithNotationShouldFailWhenKeyIsNotCorrect_Flipped ==
    { [sign |-> [backend |-> "notation", key |-> "K1"], cmd |-> "pull",
       verify |-> [backend |-> "notation", key |-> None], noDoc |-> TRUE,
       expect |-> "ok"] }

\* No trust policy is written; push --sign=notation; pull
\* --verify=notation: AssertFail.
TestImageVerifyWithNotationShouldFailWhenKeyIsNotCorrect ==
    { [sign |-> [backend |-> "notation", key |-> "K1"], cmd |-> "pull",
       verify |-> [backend |-> "notation", key |-> None], noDoc |-> TRUE,
       expect |-> "fail"] }

\* Mutant: the pull without --verify asserted to fail.
TestImagePullPlainHttpWithDefaultPort_Flipped ==
    { [sign |-> [backend |-> "none", key |-> None], cmd |-> "pull",
       verify |-> [backend |-> "none", key |-> None], noDoc |-> FALSE,
       expect |-> "fail"] }

\* build; push <ref> (no --sign): AssertOK; pull <ref> (no --verify):
\* AssertOK.
TestImagePullPlainHttpWithDefaultPort ==
    { [sign |-> [backend |-> "none", key |-> None], cmd |-> "pull",
       verify |-> [backend |-> "none", key |-> None], noDoc |-> FALSE,
       expect |-> "ok"] }

\* ------------------------------------------------------------------------
\* Specifications
\* ------------------------------------------------------------------------

\* The stop command, with no transfer going on.
Init == InitStop /\ TransferIdle

Next ==
    \/ \E p \in Callers : WalkStep(p) /\ UNCHANGED transferVars
    \/ \E p \in Callers : WalkFails(p) /\ UNCHANGED transferVars
    \/ \E p \in Callers : OnFoundStep(p) /\ UNCHANGED transferVars
    \/ \E p \in Callers : StopSeesExit(p) /\ UNCHANGED transferVars
    \/ \E p \in Callers : StopSeesGone(p) /\ UNCHANGED transferVars
    \/ \E p \in Callers : StopFails(p) /\ UNCHANGED transferVars
    \/ \E p \in Callers : Escalate(p) /\ UNCHANGED transferVars
    \/ Tick /\ UNCHANGED transferVars
    \/ \E c \in Containers : ContainerExits(c) /\ UNCHANGED transferVars
    \/ \E c \in Containers : ForceStopTakesEffect(c) /\ UNCHANGED transferVars
    \/ \E c \in Containers : ContainerRemoved(c) /\ UNCHANGED transferVars

Spec == Init /\ [][Next]_vars

\* The timer runs, the runtime acts on a signal it was sent, and a Stop
\* notices what became of its container.
Fairness ==
    /\ WF_vars(Tick /\ UNCHANGED transferVars)
    /\ \A p \in Callers :
         /\ WF_vars(Escalate(p) /\ UNCHANGED transferVars)
         /\ WF_vars(StopSeesExit(p) /\ UNCHANGED transferVars)
         /\ WF_vars(StopSeesGone(p) /\ UNCHANGED transferVars)
    /\ \A c \in Containers :
         WF_vars(ForceStopTakesEffect(c) /\ UNCHANGED transferVars)

\* The stop command under a fair timer and a fair runtime.
SpecFair == Init /\ [][Next]_vars /\ Fairness

\* One stop of a single request, over any set of live containers and any
\* probe request.
InitResolve ==
    /\ live \in SUBSET Containers
    /\ status \in [Containers -> {"running", "stopped", "unknown"}]
    /\ \A c \in Containers : status[c] = "unknown" <=> c \notin live
    /\ \E r \in ProbeRequests :
         args = [p \in Callers |-> IF p = 1 THEN <<r>> ELSE <<>>]
    /\ timeChanged = [p \in Callers |-> p = 1]
    /\ \E v \in TimeValues :
         timeValue = [p \in Callers |-> IF p = 1 THEN v ELSE DefaultTimeout]
    /\ pc = [p \in Callers |-> IF p = 1 THEN "loop" ELSE "done"]
    /\ argIdx = [p \in Callers |-> 1]
    /\ found = [p \in Callers |-> <<>>]
    /\ matchIdx = [p \in Callers |-> 1]
    /\ timer = [p \in Callers |-> 0]
    /\ ret = [p \in Callers |-> NoErr]
    /\ stdout = [p \in Callers |-> <<>>]
    /\ stderr = [p \in Callers |-> <<>>]
    /\ signals = <<>>
    /\ runs = <<>>
    /\ walked = <<>>

InitR == InitResolve /\ TransferIdle

SpecResolve == InitR /\ [][Next]_vars

\* Two stop invocations at once, each of one request and with its own
\* --time, on a runtime whose only container is c3.
InitConcurrent ==
    /\ live = {"c3"}
    /\ status \in [Containers -> {"running", "stopped", "unknown"}]
    /\ \A c \in Containers : status[c] = "unknown" <=> c \notin live
    /\ args \in [Callers -> {<<r>> : r \in ConcurrentRequests}]
    /\ timeChanged = [p \in Callers |-> TRUE]
    /\ timeValue \in [Callers -> TimeValues]
    /\ pc = [p \in Callers |-> "loop"]
    /\ argIdx = [p \in Callers |-> 1]
    /\ found = [p \in Callers |-> <<>>]
    /\ matchIdx = [p \in Callers |-> 1]
    /\ timer = [p \in Callers |-> 0]
    /\ ret = [p \in Callers |-> NoErr]
    /\ stdout = [p \in Callers |-> <<>>]
    /\ stderr = [p \in Callers |-> <<>>]
    /\ signals = <<>>
    /\ runs = <<>>
    /\ walked = <<>>

InitC == InitConcurrent /\ TransferIdle

SpecConcurrent == InitC /\ [][Next]_vars

\* Push, pull and run through the gate, with no stop going on.
InitT == StopIdle /\ InitTransfer

NextT ==
    \/ Build /\ UNCHANGED stopVars
    \/ RemovePolicy /\ UNCHANGED stopVars
    \/ \E b \in SignDirectives : StartPush(b) /\ UNCHANGED stopVars
    \/ PushTransfer /\ UNCHANGED stopVars
    \/ PushTransferFails /\ UNCHANGED stopVars
    \/ \E toolOk \in BOOLEAN : Sign(toolOk) /\ UNCHANGED stopVars
    \/ Publish /\ UNCHANGED stopVars
    \/ \E c \in PullCmds, b \in VerifyDirectives : StartPull(c, b) /\ UNCHANGED stopVars
    \/ ResolvePolicy /\ UNCHANGED stopVars
    \/ \E toolOk \in BOOLEAN : VerifyStep(toolOk) /\ UNCHANGED stopVars
    \/ Materialize /\ UNCHANGED stopVars

SpecTransfer == InitT /\ [][NextT]_vars

\* ------------------------------------------------------------------------
\* Properties of the stop command
\* ------------------------------------------------------------------------

RunKey(x) == <<x.caller, x.arg, x.match>>
SignalsOf(k, sig) ==
    {i \in 1..Len(signals) : signals[i].sig = sig /\ RunKey(signals[i]) = k}
SignalsOfArg(p, a) ==
    {i \in 1..Len(signals) : signals[i].caller = p /\ signals[i].arg = a}
RunsOfArg(p, a) ==
    {i \in 1..Len(runs) : runs[i].caller = p /\ runs[i].arg = a}
WalkedOf(p) == {i \in 1..Len(walked) : walked[i].caller = p}

\* C1: a stop request that resolves to 2 or more containers makes the
\* command return the "multiple IDs found" error for that request, and no
\* graceful and no forceful signal is ever issued on behalf of it.
C1_AmbiguousStopSendsNoSignal ==
    /\ \A i \in 1..Len(signals) : signals[i].count = 1
    /\ \A i \in 1..Len(walked) :
         walked[i].n >= 2 =>
            LET p == walked[i].caller IN
            /\ SignalsOfArg(p, walked[i].arg) = {}
            /\ RunsOfArg(p, walked[i].arg) = {}
            /\ pc[p] \in {"onfound", "done"}
            /\ argIdx[p] = walked[i].arg
            /\ pc[p] = "done" =>
                 ret[p] = [kind |-> "ambiguous", req |-> args[p][walked[i].arg]]

\* C1 witness: the command has ended on an ambiguous request whose matches
\* include a running container, after an earlier request did send a signal.
C1_Witness ==
    /\ pc[1] = "done"
    /\ ret[1].kind = "ambiguous"
    /\ Len(found[1]) >= 2
    /\ \E c \in Containers : c \in live /\ status[c] = "running"
                             /\ \E j \in 1..Len(found[1]) : found[1][j] = c
    /\ Len(signals) > 0

\* The timeout the user configured: --time when given, else the default.
ConfiguredSeconds(p) == IF timeChanged[p] THEN timeValue[p] ELSE DefaultTimeout

\* C3: a Stop issues at most one forceful signal; it issues it only after
\* its graceful signal, with the container still not terminal, and not
\* before the configured timeout has elapsed since the graceful signal. A
\* Stop that escalated issued exactly one, a Stop whose container became
\* terminal within the timeout issued none.
C3_EscalationOrdering ==
    /\ \A i \in 1..Len(signals) :
         signals[i].sig = "kill" =>
            /\ signals[i].at >= ConfiguredSeconds(signals[i].caller)
            /\ ~Terminal(signals[i].st)
            /\ \E j \in 1..(i - 1) :
                 signals[j].sig = "term" /\ RunKey(signals[j]) = RunKey(signals[i])
            /\ Cardinality(SignalsOf(RunKey(signals[i]), "kill")) = 1
    /\ \A i \in 1..Len(runs) :
         Cardinality(SignalsOf(RunKey(runs[i]), "kill")) =
            (IF runs[i].escalated THEN 1 ELSE 0)
    /\ \A p \in Callers :
         /\ pc[p] = "escalated" =>
              Cardinality(SignalsOf(<<p, argIdx[p], matchIdx[p]>>, "kill")) = 1
         /\ pc[p] = "awaiting" =>
              /\ SignalsOf(<<p, argIdx[p], matchIdx[p]>>, "kill") = {}
              /\ timer[p] <= ConfiguredSeconds(p)

\* C3 witness: a Stop under --time=2 escalated and then ended with the
\* container terminal.
C3_Witness ==
    \E i \in 1..Len(runs) :
        /\ runs[i].escalated
        /\ runs[i].result = "nil"
        /\ timeChanged[runs[i].caller]
        /\ timeValue[runs[i].caller] = 2

\* C4 as stated: when a request resolves to zero matches, every other
\* request of the invocation, those listed after it included, is still
\* resolved and processed.
C4_NotFoundDoesNotAbortBatch ==
    \A p \in Callers :
        (pc[p] = "done" /\ \E i \in WalkedOf(p) : walked[i].n = 0) =>
            \A a \in 1..Len(args[p]) : \E i \in WalkedOf(p) : walked[i].arg = a

\* C4 amended: a request that resolves to zero matches ends the invocation
\* with the no-such-container error: every request listed before it has
\* been resolved and processed, no request listed after it is resolved.
C4_NotFoundEndsBatch ==
    \A i \in 1..Len(walked) :
        walked[i].n = 0 =>
            LET p == walked[i].caller
                k == walked[i].arg
            IN  /\ pc[p] = "done"
                /\ ret[p].kind = "nosuch"
                /\ \A a \in 1..(k - 1) :
                     /\ \E j \in WalkedOf(p) : walked[j].arg = a /\ walked[j].n >= 1
                     /\ RunsOfArg(p, a) # {}
                /\ \A j \in WalkedOf(p) : walked[j].arg <= k
                /\ \A j \in 1..Len(signals) :
                     signals[j].caller = p => signals[j].arg < k

\* C4 witness: the command ended on a missing container that was listed
\* first, with another request listed after it.
C4_Witness ==
    /\ pc[1] = "done"
    /\ ret[1].kind = "nosuch"
    /\ argIdx[1] = 1
    /\ Len(args[1]) >= 2
    /\ MatchSet(live, args[1][2]) # {}

\* C5: an invocation in which a request resolved to zero containers ends
\* with a non-nil error that names that request; an invocation that ended
\* without error resolved no request to zero containers.
C5_NonexistentMeansFailure ==
    /\ \A i \in 1..Len(walked) :
         walked[i].n = 0 =>
            LET p == walked[i].caller IN
            /\ pc[p] = "done"
            /\ ret[p] # NoErr
            /\ ret[p] = [kind |-> "nosuch", req |-> args[p][walked[i].arg]]
    /\ \A p \in Callers :
         (pc[p] = "done" /\ ret[p] = NoErr) =>
            \A i \in WalkedOf(p) : walked[i].n # 0

\* C5 witness: the second request was the missing one, after a first that
\* was stopped and reported.
C5_Witness ==
    /\ pc[1] = "done"
    /\ ret[1].kind = "nosuch"
    /\ argIdx[1] = 2
    /\ ret[1].req = <<"z">>
    /\ Len(stdout[1]) = 1

\* C6: a Stop that reports not-found for a container that was resolved as
\* the single match is a success for the caller: "No such container" goes
\* to stderr, no error is returned for the request, the loop goes on to the
\* next request, and a command whose only trouble was this ends without
\* error.
C6_VanishIsSuccess ==
    /\ \A i \in 1..Len(runs) :
         runs[i].result = "notfound" =>
            LET p == runs[i].caller IN
            /\ argIdx[p] > runs[i].arg
            /\ \E j \in 1..Len(stderr[p]) : stderr[p][j] = args[p][runs[i].arg]
    /\ \A p \in Callers :
         (/\ pc[p] = "done"
          /\ \A a \in 1..Len(args[p]) :
               \E i \in WalkedOf(p) : walked[i].arg = a /\ walked[i].n = 1
          /\ \A i \in 1..Len(runs) :
               runs[i].caller = p => runs[i].result \in {"nil", "notfound"})
         => ret[p] = NoErr

\* C6 witness: the container of the first request vanished during its Stop,
\* the second request was stopped and reported, the command ended without
\* error.
C6_Witness ==
    /\ pc[1] = "done"
    /\ ret[1] = NoErr
    /\ Len(runs) = 2
    /\ runs[1].result = "notfound"
    /\ runs[1].entry = "active"
    /\ runs[2].result = "nil"
    /\ Len(stdout[1]) = 1

\* A Stop that found its container already terminal returned nil, issued
\* no signal, and was reported to the caller as a success.
TerminalStopIsQuietSuccess ==
    \A i \in 1..Len(runs) :
        runs[i].entry = "terminal" =>
            LET p == runs[i].caller IN
            /\ runs[i].result = "nil"
            /\ ~runs[i].escalated
            /\ SignalsOf(RunKey(runs[i]), "term") = {}
            /\ SignalsOf(RunKey(runs[i]), "kill") = {}
            /\ argIdx[p] > runs[i].arg
            /\ \E j \in 1..Len(stdout[p]) : stdout[p][j] = args[p][runs[i].arg]

\* The step of such a Stop leaves the runtime as it was.
TerminalStopChangesNothing ==
    (/\ Len(runs') = Len(runs) + 1
     /\ runs'[Len(runs')].entry = "terminal")
    => (live' = live /\ status' = status /\ signals' = signals)

\* C7: a Stop that finds its container already terminal returns success to
\* the caller and issues no graceful and no forceful signal, and the step
\* that does so leaves the runtime (the containers, their statuses, the
\* signals sent) as it was: a second Stop after a Stop changes nothing.
C7_StopIdempotence ==
    []TerminalStopIsQuietSuccess /\ [][TerminalStopChangesNothing]_vars

\* C7 witness: the same container stopped twice in one invocation: the
\* first Stop signalled it, the second found it terminal.
C7_Witness ==
    /\ Len(runs) = 2
    /\ runs[1].target = runs[2].target
    /\ runs[1].entry = "active"
    /\ runs[1].result = "nil"
    /\ runs[2].entry = "terminal"
    /\ runs[2].target \in live

\* The elements of a sequence.
Range(f) == {f[i] : i \in 1..Len(f)}

\* The invocation of caller p ended on the ambiguity of its current request.
EndedAmbiguous(p) == pc[p] = "done" /\ ret[p].kind = "ambiguous"

IsResolution == Len(walked') = Len(walked) + 1

\* The caller, the request and the entity set of the resolution, and its
\* result.
ResCaller == walked'[Len(walked')].caller
ResRequest == args[ResCaller][walked'[Len(walked')].arg]
ResResult == found'[ResCaller]

\* The result is one of not-found, resolved, ambiguous over entities of E
\* that match the request, each listed once, in the runtime's order.
WellFormedResult(E, r, res) ==
    /\ Range(res) \subseteq E
    /\ \A c \in Range(res) : Matches(c, r)
    /\ \A i, j \in 1..Len(res) : i < j => Rank(res[i]) < Rank(res[j])
    /\ walked'[Len(walked')].n = Len(res)

Counted(E, r) ==
    IF \E c \in E : Id(c) = r
    THEN {c \in E : Id(c) = r \/ (Name(c) # <<>> /\ Name(c) = r)}
    ELSE {c \in E : \/ Len(r) > 0 /\ IsPrefix(r, Id(c))
                    \/ Name(c) # <<>> /\ Name(c) = r}

WaitIsBounded ==
    \A p \in Callers :
        LET t == Timeout(timeChanged[p], timeValue[p]) IN
        /\ t.set <=> timeChanged[p]
        /\ t.set => t.secs = timeValue[p]
        /\ ~t.set => EffectiveTimeout(t) = DefaultTimeout
        /\ EffectiveTimeout(t) \in Nat
        /\ timer[p] <= EffectiveTimeout(t)

\* C16: the timeout passed to Stop is absent exactly when --time was not
\* given and is the given seconds otherwise; an absent timeout is the
\* finite default; and with the timer and the runtime fair, every Stop
\* that is waiting for its container (awaiting the exit, or escalated)
\* eventually ends, as terminated or failed.
C16_StopTerminates ==
    /\ []WaitIsBounded
    /\ \A p \in Callers : InStop(p) ~> ~InStop(p)

\* C16 witness: without --time, a Stop waited the whole default, escalated
\* and ended with its container terminal.
C16_Witness ==
    /\ ~timeChanged[1]
    /\ Len(runs) >= 1
    /\ runs[1].escalated
    /\ runs[1].result = "nil"
    /\ \E i \in 1..Len(signals) :
         signals[i].sig = "kill" /\ signals[i].at = DefaultTimeout

\* Every request of caller p resolved to exactly one container.
AllResolved(p) ==
    \A a \in 1..Len(args[p]) :
        \E i \in WalkedOf(p) : walked[i].arg = a /\ walked[i].n = 1

\* C17: when two callers run Stop on the same container, in any
\* interleaving, each may send its own signals (nothing is deduplicated),
\* and a caller whose Stop finds the container already terminal or already
\* gone, or sees it become so, gets no error: barring an unexpected error
\* of the runtime, every caller that resolved the container returns
\* success, and once a Stop has returned success the container is
\* terminal (or has been removed).
C17_ConcurrentStopsSafe ==
    /\ \A i \in 1..Len(runs) :
         LET p == runs[i].caller IN
         /\ runs[i].entry \in {"terminal", "absent"} =>
              /\ runs[i].result \in {"nil", "notfound"}
              /\ SignalsOf(RunKey(runs[i]), "term") = {}
              /\ SignalsOf(RunKey(runs[i]), "kill") = {}
         /\ runs[i].result \in {"nil", "notfound"} => argIdx[p] > runs[i].arg
         /\ runs[i].result = "nil" =>
              (runs[i].target \notin live \/ Terminal(status[runs[i].target]))
         /\ runs[i].result = "notfound" => runs[i].target \notin live
    /\ \A p \in Callers :
         (pc[p] = "done" /\ AllResolved(p) /\ ret[p].kind # "runtime") =>
            /\ ret[p] = NoErr
            /\ \A a \in 1..Len(args[p]) : RunsOfArg(p, a) # {}

\* C17 witness: both callers signalled c3 (two graceful signals to the same
\* container), one of them escalated, and both returned success with c3
\* terminal.
C17_Witness ==
    /\ \A p \in Callers : pc[p] = "done" /\ ret[p] = NoErr
    /\ Len(runs) = 2
    /\ runs[1].caller # runs[2].caller
    /\ runs[1].target = "c3" /\ runs[2].target = "c3"
    /\ runs[1].entry = "active" /\ runs[2].entry = "active"
    /\ \E i, j \in 1..Len(signals) :
         /\ signals[i].sig = "term" /\ signals[j].sig = "term"
         /\ signals[i].caller # signals[j].caller
         /\ signals[i].target = "c3" /\ signals[j].target = "c3"
    /\ \E i \in 1..Len(signals) : signals[i].sig = "kill"
    /\ "c3" \in live
    /\ Terminal(status["c3"])

\* The invocation of caller p ended on a hard error: an ambiguity, or an
\* unexpected error of the runtime in the resolution or in Stop.
HardError(p) == pc[p] = "done" /\ ret[p].kind \in {"ambiguous", "runtime"}

\* Requests are walked in argument order, one at a time: what has been
\* resolved, signalled and stopped belongs to the requests up to the
\* current one, each resolved once and in order.
InArgumentOrder ==
    /\ \A i, j \in 1..Len(walked) :
         (i < j /\ walked[i].caller = walked[j].caller) =>
            walked[i].arg < walked[j].arg
    /\ \A i \in 1..Len(walked) :
         /\ walked[i].arg <= argIdx[walked[i].caller]
         /\ \A a \in 1..(walked[i].arg - 1) :
              \E j \in 1..(i - 1) :
                 walked[j].caller = walked[i].caller /\ walked[j].arg = a
    /\ \A i, j \in 1..Len(signals) :
         (i < j /\ signals[i].caller = signals[j].caller) =>
            signals[i].arg <= signals[j].arg
    /\ \A i \in 1..Len(signals) :
         /\ signals[i].arg <= argIdx[signals[i].caller]
         /\ \E j \in WalkedOf(signals[i].caller) : walked[j].arg = signals[i].arg
    /\ \A i \in 1..Len(runs) : runs[i].arg <= argIdx[runs[i].caller]

\* A hard error of request k is what the command returns, and nothing is
\* resolved, signalled or stopped for a request after k; the containers
\* stopped for the requests before k are still terminal (or removed).
StopsAtFirstHardError ==
    /\ \A p \in Callers :
         HardError(p) =>
            LET k == argIdx[p] IN
            /\ k <= Len(args[p])
            /\ ret[p].req = args[p][k]
            /\ \A i \in WalkedOf(p) : walked[i].arg <= k
            /\ \A i \in 1..Len(signals) : signals[i].caller = p => signals[i].arg <= k
            /\ \A i \in 1..Len(runs) :
                 (runs[i].caller = p /\ runs[i].arg < k) =>
                    /\ runs[i].result \in {"nil", "notfound"}
                    /\ runs[i].result = "nil" =>
                         (runs[i].target \notin live
                            \/ Terminal(status[runs[i].target]))
    /\ \A i \in 1..Len(runs) :
         runs[i].result = "runtime" =>
            LET p == runs[i].caller IN
            /\ pc[p] = "done"
            /\ ret[p] = [kind |-> "runtime", req |-> args[p][runs[i].arg]]
            /\ argIdx[p] = runs[i].arg
    /\ \A i \in 1..Len(walked) :
         walked[i].n >= 2 =>
            LET p == walked[i].caller IN
            pc[p] = "done" =>
               (ret[p].kind = "ambiguous" /\ argIdx[p] = walked[i].arg)

\* The step that returns a hard error touches no container, sends no
\* signal and reports nothing.
HardErrorUndoesNothing ==
    \A p \in Callers :
        (pc[p] # "done" /\ pc'[p] = "done"
           /\ ret'[p].kind \in {"ambiguous", "runtime"}) =>
            /\ live' = live
            /\ status' = status
            /\ signals' = signals
            /\ stdout' = stdout
            /\ argIdx' = argIdx

\* C19: the requests of a stop are processed strictly in argument order,
\* one at a time; when request k ends in an ambiguity or in an unexpected
\* error of the runtime (from the resolution or from Stop), the command
\* returns that error, nothing is resolved or signalled for a request
\* after k, and the containers of the requests before k keep the state
\* their own stop produced.
C19_BatchStopsAtFirstHardError ==
    /\ []InArgumentOrder
    /\ []StopsAtFirstHardError
    /\ [][HardErrorUndoesNothing]_vars

\* C19 witness: the Stop of the first request failed on a runtime error
\* after its graceful signal; the second request, which names a running
\* container, was never resolved nor signalled.
C19_Witness ==
    /\ HardError(1)
    /\ ret[1].kind = "runtime"
    /\ argIdx[1] = 1
    /\ Len(args[1]) >= 2
    /\ Len(runs) = 1 /\ runs[1].entry = "active" /\ runs[1].result = "runtime"
    /\ Len(walked) = 1
    /\ \E c \in MatchSet(live, args[1][2]) :
         c # runs[1].target /\ status[c] = "running"
    /\ \A i \in 1..Len(signals) : signals[i].arg = 1

\* The lines OnFound wrote for the Stops of caller p that returned res, in
\* the order of the Stops.
Reported(p, res) ==
    LET F[i \in 0..Len(runs)] ==
            IF i = 0 THEN <<>>
            ELSE IF runs[i].caller = p /\ runs[i].result = res
                 THEN Append(F[i - 1], args[p][runs[i].arg])
                 ELSE F[i - 1]
    IN  F[Len(runs)]

VerifiedPull(rec) ==
    rec.pc = "done" /\ rec.cmd \in PullCmds /\ rec.backend # "none"

\* The external tool did its part whenever it was invoked.
ToolRan(rec) == rec.invoked => rec.toolOk

\* The finished command is the verifying step of a test's scenario: the
\* image it verified carries the signature the test pushed, and the tool ran.
ScenarioApplies(t, rec) ==
    /\ VerifiedPull(rec)
    /\ rec.cmd = t.cmd
    /\ rec.backend = t.verify.backend
    /\ rec.key = t.verify.key
    /\ [digest |-> rec.digest, backend |-> t.sign.backend, key |-> t.sign.key] \in atts
    /\ t.noDoc => rec.doc = NoDoc
    /\ ToolRan(rec)

\* The gate's outcome is the one the test asserts.
AgreesWith(T) ==
    \A t \in T : ScenarioApplies(t, last) => (last.ok <=> t.expect = "ok")

\* C2: a pull or run with verification requested makes the image available
\* if and only if Verify returned Verified: any other outcome
\* (TrustDenied, an error, no policy) fails the command and leaves the
\* local image store as the command found it.
C2_FailClosedPull ==
    /\ VerifiedPull(last) =>
         /\ last.materialized <=> last.verdict = "Verified"
         /\ last.ok <=> last.verdict = "Verified"
         /\ last.ok => last.localAfter = last.digest
         /\ ~last.ok => last.localAfter = last.localBefore
    /\ (op.backend # "none" /\ op.pc = "materialize") => op.verdict = "Verified"
    /\ AgreesWith(TestRunVerifyCosign)

\* C2 witness: a run with verification was denied, and the local store
\* does not hold the image that was refused.
C2_Witness ==
    /\ VerifiedPull(last)
    /\ last.cmd = "run"
    /\ last.verdict = "TrustDenied"
    /\ ~last.ok
    /\ localImg # last.digest

KeyMismatch(rec) ==
    /\ rec.policy.level = "strict"
    /\ \E a \in atts : a.digest = rec.digest /\ a.backend = rec.backend
    /\ ~\E a \in atts : /\ a.digest = rec.digest /\ a.backend = rec.backend
                        /\ a.key = rec.policy.store

\* C9: verifying an image signed with K1 against an unrelated key K2 is
\* TrustDenied (the tool having run), not AttestationToolError; the pull
\* fails and materializes nothing, also when an earlier pull with K1 left
\* the very same image in the local store.
C9_KeyMismatchIsTrustDenied ==
    /\ (VerifiedPull(last) /\ KeyMismatch(last)) =>
         /\ ~last.ok
         /\ ~last.materialized
         /\ last.localAfter = last.localBefore
         /\ ToolRan(last) => last.verdict = "TrustDenied"
         /\ ~ToolRan(last) => last.verdict = "AttestationToolError"
    /\ AgreesWith(TestImageVerifyWithCosignShouldFailWhenKeyIsNotCorrect)

\* C9 witness: a cosign pull with K2 was denied although the image, signed
\* with K1, was already in the local store.
C9_Witness ==
    /\ VerifiedPull(last)
    /\ KeyMismatch(last)
    /\ last.backend = "cosign"
    /\ last.key = "K2"
    /\ last.verdict = "TrustDenied"
    /\ last.localBefore = last.digest

\* No scope of the trust policy document matches the image. The key-pair
\* backend's policy is the key of the directive, which applies to every
\* image.
NoScopeMatches(rec) ==
    /\ rec.backend = "notation"
    /\ \A i \in 1..Len(rec.doc) : ~ScopeMatches(rec.doc[i].scope, Image)

PlainPull(rec) ==
    rec.pc = "done" /\ rec.cmd \in PullCmds /\ rec.backend = "none"

\* A finished push that gave no signing directive.
PlainPush(rec) ==
    rec.pc = "done" /\ rec.cmd = "push" /\ rec.backend = "none"

\* The finished command is the plain pull of a test's scenario.
PlainScenarioApplies(t, rec) ==
    /\ PlainPull(rec)
    /\ t.verify.backend = "none"
    /\ rec.cmd = t.cmd

\* C11: a pull or run without a verification directive never resolves a
\* trust policy and never invokes Verify: it goes straight to
\* materialization and succeeds whatever the trust policy document holds
\* and whether or not the image carries a signature. A push without a
\* signing directive never invokes Sign and never reaches the publication
\* of an attestation.
C11_NoDirectiveNoAttestation ==
    /\ PlainPull(last) =>
         /\ ~last.invoked
         /\ last.policy = NoPolicy
         /\ last.verdict = None
         /\ last.ok
         /\ last.materialized
         /\ last.localAfter = last.digest
    /\ (op.cmd \in PullCmds /\ op.backend = "none") => op.pc = "materialize"
    /\ PlainPush(last) => (~last.invoked /\ ~last.signed)
    /\ (op.cmd = "push" /\ op.backend = "none") => op.pc = "transfer"
    /\ \A t \in TestImagePullPlainHttpWithDefaultPort :
         PlainScenarioApplies(t, last) => (last.ok <=> t.expect = "ok")

\* C11 witness: a pull without directive succeeded on an image that carries
\* no attestation at all, with no trust policy document in place: the pull
\* that any verification would have refused.
C11_Witness ==
    /\ PlainPull(last)
    /\ last.cmd = "pull"
    /\ last.ok
    /\ localImg = last.digest
    /\ policyDoc = NoDoc
    /\ ~\E a \in atts : a.digest = last.digest

\* Where a command stands, the steps before it have succeeded: signing
\* has the digest the registry now holds, publication has the signature,
\* materialization after a directive has the positive verdict.
PipelineStateOrdered ==
    /\ op.pc \in {"sign", "publish"} =>
         /\ op.cmd = "push"
         /\ op.digest # None
         /\ op.digest = regTag
         /\ op.digest = op.localBefore
    /\ op.pc = "sign" => (~op.invoked /\ ~op.signed)
    /\ op.pc = "publish" => (op.invoked /\ op.toolOk /\ op.signed)
    /\ (op.pc = "materialize" /\ op.backend # "none") =>
         (op.policy # NoPolicy /\ op.verdict = "Verified")
    /\ (last.cmd = "push" /\ last.invoked) => last.digest # None
    /\ (last.cmd = "push" /\ last.verdict = "TransferError") =>
         (last.digest = None /\ ~last.invoked /\ ~last.signed /\ ~last.ok)
    /\ (last.cmd \in PullCmds /\ last.backend # "none" /\ last.materialized) =>
         last.verdict = "Verified"

\* Each step starts from the success of the step before it: the step into
\* signing is the successful transfer, an attestation is added only by the
\* publication that follows a successful Sign and only for the digest
\* pushed, and the local store changes under a directive only from a
\* positive verdict.
PipelineStepOrdered ==
    /\ (op'.pc = "sign" /\ op.pc # "sign") =>
         /\ op.pc = "transfer"
         /\ regTag' = localImg
         /\ op'.digest = regTag'
    /\ (op'.pc = "publish" /\ op.pc # "publish") => op.pc = "sign"
    /\ atts' # atts =>
         /\ op.pc = "publish"
         /\ op.signed
         /\ atts' = atts \cup {[digest |-> regTag, backend |-> op.backend,
                                 key |-> op.key]}
    /\ (op'.pc = "materialize" /\ op.pc # "materialize" /\ op'.backend # "none") =>
         op.pc = "verify"
    /\ (localImg' # localImg /\ op.cmd \in PullCmds /\ op.backend # "none") =>
         (op.pc = "materialize" /\ op.verdict = "Verified")

\* C12: push with signing runs transfer, Sign, publication in this order,
\* Sign only after the transfer succeeded and against the digest it
\* produced, the publication only after Sign succeeded; pull with
\* verification materializes only after Verify returned Verified. No step
\* starts before the success of the one before it.
C12_StrictPipelineOrdering ==
    []PipelineStateOrdered /\ [][PipelineStepOrdered]_vars

\* C12 witness: a signed push went through all three steps and a pull with
\* verification of what it pushed was then materialized.
C12_Witness ==
    /\ VerifiedPull(last)
    /\ last.invoked
    /\ last.materialized
    /\ [digest |-> last.digest, backend |-> last.backend, key |-> last.policy.store]
          \in atts
    /\ regTag = last.digest

\* The step in which Sign fails.
SignFailureStep ==
    op.pc = "sign" /\ op' = Idle /\ last'.verdict = "SignError"

\* The governing policy demands a check, and the digest carries no
\* attestation it trusts.
Untrusted(rec) ==
    /\ rec.policy.level # "skip"
    /\ ~HasTrustedSignature(atts, rec.digest, rec.backend, rec.policy)

\* A push that failed at Sign is reported as failed, after the transfer;
\* a pull with verification of a digest whose signing failed, while the
\* digest carries no trusted attestation, fails and materializes nothing.
SignFailureReported ==
    /\ (last.cmd = "push" /\ last.verdict = "SignError") =>
         /\ ~last.ok
         /\ last.invoked
         /\ ~last.signed
         /\ last.digest \in signFailed
    /\ \A d \in signFailed : d \in Digests
    /\ (VerifiedPull(last) /\ last.digest \in signFailed /\ Untrusted(last)) =>
         /\ ~last.ok
         /\ ~last.materialized
         /\ last.verdict \in {"TrustDenied", "AttestationToolError", "PolicyNotFound"}
         /\ last.localAfter = last.localBefore

\* The failure of Sign rolls nothing back and publishes nothing: the
\* registry still holds the pushed digest, the attestations are unchanged.
SignFailureKeepsContent ==
    SignFailureStep =>
        /\ regTag' = regTag
        /\ regTag = op.digest
        /\ atts' = atts
        /\ localImg' = localImg

\* C13: when the transfer of a push succeeds and Sign then fails, the push
\* is reported as failed, the pushed content stays in the registry, the
\* push publishes no attestation, and a later pull with verification of
\* that digest fails (for as long as the digest carries no attestation the
\* governing policy trusts, and the policy demands a check).
C13_SignFailureAfterPush ==
    []SignFailureReported /\ [][SignFailureKeepsContent]_vars

\* C13 witness: the signing of a push failed, the registry holds what was
\* pushed with no attestation, and a pull with verification under a strict
\* policy was then denied.
C13_Witness ==
    /\ VerifiedPull(last)
    /\ last.digest \in signFailed
    /\ regTag = last.digest
    /\ ~\E a \in atts : a.digest = last.digest
    /\ last.policy.level = "strict"
    /\ last.verdict = "TrustDenied"
    /\ ~last.ok
    /\ localImg # last.digest

\* The external tool was invoked and did not run to a decodable result.
ToolFailed(rec) == rec.invoked /\ ~rec.toolOk

\* C18: a Verify whose external tool failed to execute, timed out or gave
\* an undecodable result yields AttestationToolError, whether or not the
\* image carries a valid trusted signature: never Verified, never
\* TrustDenied; the pull it gates fails and materializes nothing. A
\* TrustDenied verdict comes only from a tool that ran.
C18_ToolFailureIsNoVerdict ==
    /\ (VerifiedPull(last) /\ ToolFailed(last)) =>
         /\ last.verdict = "AttestationToolError"
         /\ last.verdict \notin {"Verified", "TrustDenied"}
         /\ ~last.ok
         /\ ~last.materialized
         /\ last.localAfter = last.localBefore
    /\ (VerifiedPull(last) /\ last.verdict = "TrustDenied") =>
         (last.invoked /\ last.toolOk /\ ~last.signed)
    /\ (VerifiedPull(last) /\ last.invoked /\ last.verdict = "Verified") =>
         (last.toolOk /\ last.signed)
    /\ (op.pc = "materialize" /\ op.invoked) => op.toolOk

\* C18 witness: the tool failed on an image that carries a signature the
\* policy trusts; the pull failed as AttestationToolError and the image is
\* not in the local store.
C18_Witness ==
    /\ VerifiedPull(last)
    /\ ToolFailed(last)
    /\ last.signed
    /\ last.verdict = "AttestationToolError"
    /\ localImg # last.digest

====
